---- MODULE Spec2Model ----
(***************************************************************************)
(* pyaspenplus: the client with its mock and COM backends (client.py), the *)
(* COM-backed Simulation wrapper (api/com_simulation.py), the normalized   *)
(* facade AspenAPI (api/aspen_api.py) and the parameter sweep              *)
(* (api/run_sweep_aspen.py).                                               *)
(*                                                                         *)
(* Conventions.  A Python Optional is a sequence of length at most one:    *)
(* <<>> is None and <<v>> is the value v.  Floats are integers in tenths   *)
(* where the source has one decimal (flow 123.4 is 1234, flow 100.0 is     *)
(* 1000).  An exception is the name of its class, "none" when the call     *)
(* returned.  What the external application answers (hasattr, a COM call   *)
(* that throws) is not decided by the program: each handler draws it       *)
(* afresh from the outcomes the automation interface can produce.          *)
(***************************************************************************)
EXTENDS Integers, Sequences, FiniteSets, TLC

VARIABLES
    \* ---- platform (client.py:21-24, utils.py:3-5)
    win32com,       \* TRUE iff "import win32com.client" succeeded
    windows,        \* TRUE iff platform.system() = "Windows"
    \* ---- AspenPlusClient / backends (client.py)
    backend_name,   \* "unbuilt" | "mock" | "com"
    ctor_exc,       \* exception raised by AspenPlusClient.__init__
    _streams,       \* MockBackend._streams: insertion-ordered dict
    _open,          \* MockBackend._open
    _case,          \* MockBackend._case
    app,            \* COMBackend.app
    doc,            \* COMBackend.doc
    opened,         \* open routines issued to the external application
    dispatched,     \* number of application objects dispatched
    cm_pc,          \* position of the connect() generator
    cm_exc,         \* exception that left the last with-block
    cm_closed,      \* the generator's finally clause called backend.close()
    raised,         \* exception in flight at the caller
    last,           \* the last backend call and its arguments
    \* ---- Simulation (api/com_simulation.py)
    sim_state,      \* "unbuilt" | "built" | "failed" ("unused": not this program)
    AspenSimulation,\* Simulation.AspenSimulation: the dispatched COM document
    duration,       \* Simulation.duration
    converged,      \* Simulation.converged
    solved,         \* a Run of this Simulation has returned with converged true
    call,           \* the last Simulation call, what the external tree answered
                    \* and what the call returned
    \* ---- run_sweep (api/run_sweep_aspen.py, examples/run_sweep_aspen.py)
    sweep_pc,       \* "start" | "set_input" | "set_column" | "solve" | "read" |
                    \* "write" | "done" | "aborted" ("unused": not this program)
    sweep_kind,     \* which of the two scripts runs: "api" | "examples"
    sweep_idx,      \* idx, the loop index of enumerate(grid)
    rows,           \* the rows list
    csv,            \* the file written: None, or header and lines
    api_call,       \* the last AspenAPI call: its name, exception and the
                    \* primitive calls it made
    \* ---- the scripts run from the command line (their main blocks)
    main            \* which script runs, where its main block is, the case
                    \* path it was given, what it printed and its exit status

\* the client's own variables, without the platform and the external application
clientVars_own == <<backend_name, ctor_exc, _streams, _open, _case, app, doc,
                    cm_pc, cm_exc, cm_closed, raised, last>>

clientVars == <<win32com, windows, opened, dispatched, clientVars_own>>

simVars == <<sim_state, AspenSimulation, duration, converged, solved, call>>

sweepVars == <<sweep_pc, sweep_kind, sweep_idx, rows, csv, api_call, main>>

vars == <<clientVars, simVars, sweepVars>>

----------------------------------------------------------------------------
(* Python values *)

None == <<>>

Some(v) == <<v>>

NoExc == "none"

----------------------------------------------------------------------------
(* models.py: the Stream dataclass *)

Stream(name, flow, temperature, pressure, composition) ==
    [name |-> name, flow |-> flow, temperature |-> temperature,
     pressure |-> pressure, composition |-> composition]

\* Stream(name=n, flow=f): the other fields keep their default None
Stream2(name, flow) == Stream(name, flow, None, None, None)

----------------------------------------------------------------------------
(* Python dict, insertion ordered: a sequence of [key, val] with distinct  *)
(* keys                                                                    *)

DictKeys(d) == {d[i].key : i \in DOMAIN d}

DictHas(d, k) == k \in DictKeys(d)

\* d[k] = v : overwrite in place when k is a key, append otherwise
DictSet(d, k, v) ==
    IF DictHas(d, k)
    THEN [i \in DOMAIN d |-> IF d[i].key = k THEN [key |-> k, val |-> v] ELSE d[i]]
    ELSE Append(d, [key |-> k, val |-> v])

\* list(d.values())
DictValues(d) == [i \in DOMAIN d |-> d[i].val]

----------------------------------------------------------------------------
(* Inputs *)

StreamNames == {"F1", "S9"}

FlowInputs == {1234, 2000}

\* the records a caller passes to set_stream
StreamInputs == {Stream2(n, f) : n \in StreamNames, f \in FlowInputs}

ExistingPaths == {"case.bkp"}

Paths == {"case.bkp", "missing.bkp"}

MaxDispatch == 2

\* stage counts passed to the per-stage reads: -1 .. MaxStages
MaxStages == 2

\* seconds the external run may take: 0 .. MaxElapsed
MaxElapsed == 1

----------------------------------------------------------------------------
(* MockBackend (client.py:48-82).  b = [streams, open, case]               *)

Mock == [streams |-> _streams, open |-> _open, case |-> _case]

MockInit == [streams |-> <<>>, open |-> FALSE, case |-> None]

Mock_connect(b) == [b EXCEPT !.open = TRUE]

Fixture ==
    << [key |-> "F1",
        val |-> Stream("F1", 1000, Some(300), Some(101325), Some({<<"H2O", 1>>}))],
       [key |-> "F2",
        val |-> Stream("F2", 500, Some(310), Some(101325), Some({<<"Ethanol", 1>>}))] >>

Mock_open_case_merge(b, path) ==
    [b EXCEPT !.case = Some(path),
              !.streams = DictSet(DictSet(b.streams, "F1", Fixture[1].val),
                                  "F2", Fixture[2].val)]

Mock_open_case(b, path) == [b EXCEPT !.case = Some(path), !.streams = Fixture]

\* a run that rescales the flows
Mock_run_rescale(b) ==
    [b EXCEPT !.streams =
        [i \in DOMAIN b.streams |->
            [b.streams[i] EXCEPT !.val.flow = b.streams[i].val.flow * 2]]]

\* s.flow *= 1.0 for every stored record
Mock_run(b) ==
    [b EXCEPT !.streams =
        [i \in DOMAIN b.streams |->
            [b.streams[i] EXCEPT !.val.flow = b.streams[i].val.flow * 1]]]

Mock_get_streams(b) == DictValues(b.streams)

\* a write keyed by the record's own name field
Mock_set_stream_by_field(b, name, stream) ==
    [b EXCEPT !.streams = DictSet(b.streams, stream.name, stream)]

Mock_set_stream(b, name, stream) ==
    [b EXCEPT !.streams = DictSet(b.streams, name, stream)]

\* return self._case or path
Mock_save(b, path) == IF b.case # None /\ b.case # Some("") THEN b.case ELSE path

Mock_close(b) == [b EXCEPT !.open = FALSE]

----------------------------------------------------------------------------
(* COMBackend (client.py:84-220).  c = [app, doc]; a handler returns the   *)
(* object after the call, the exception raised and the open routines it    *)
(* issued.  app is Some(k) for the k-th dispatched application object.     *)

Com == [app |-> app, doc |-> doc]

ComInit == [app |-> None, doc |-> None]

Ret(c, exc, calls) == [obj |-> c, exc |-> exc, calls |-> calls]

\* __init__: raises when win32com is None, before any field is set
COMBackend_init(has_win32com) == IF has_win32com THEN NoExc ELSE "AspenPlusError"

\* utils.ensure_windows
ensure_windows(is_windows) == IF is_windows THEN NoExc ELSE "RuntimeError"

\* connect: dispatch_ok is whether Dispatch(progid) returns, active_doc what
\* reading app.ActiveDocument gives ("doc", "absent" or "raises"); k numbers
\* the application object Dispatch returns
Com_connect(c, is_windows, dispatch_ok, active_doc, k) ==
    IF ensure_windows(is_windows) # NoExc
    THEN Ret(c, ensure_windows(is_windows), {})
    ELSE IF ~dispatch_ok
    THEN Ret(c, "AspenPlusError", {})
    ELSE IF active_doc = "raises"
    THEN Ret([c EXCEPT !.app = Some(k)], "AspenPlusError", {})
    ELSE Ret([app |-> Some(k),
              doc |-> IF active_doc = "doc" THEN Some(k) ELSE None], NoExc, {})

exists(path) == path \in ExistingPaths

Com_open_case(c, path, has_OpenCase, has_Open, throws) ==
    IF ~exists(path)
    THEN Ret(c, "AspenPlusError", {})
    ELSE IF c.app # None /\ has_OpenCase
    THEN Ret(c, IF throws THEN "AspenPlusError" ELSE NoExc, {<<"OpenCase", path>>})
    ELSE IF c.app # None /\ has_Open
    THEN Ret(c, IF throws THEN "AspenPlusError" ELSE NoExc, {<<"Open", path>>})
    ELSE Ret(c, "AspenPlusError", {})

Com_run(c, has_app_Run, has_doc_Run, throws) ==
    IF c.app # None /\ has_app_Run
    THEN Ret(c, IF throws THEN "AspenPlusError" ELSE NoExc, {})
    ELSE IF c.doc # None /\ has_doc_Run
    THEN Ret(c, IF throws THEN "AspenPlusError" ELSE NoExc, {})
    ELSE Ret(c, "AspenPlusError", {})

\* set_stream: has_coll is whether doc has MaterialStreams or Streams, found
\* whether an item of that name is in it; the attribute writes are guarded
\* by hasattr and change nothing of the backend object
Com_set_stream(c, name, stream, has_coll, found, throws) ==
    IF c.doc = None \/ ~has_coll
    THEN Ret(c, "AspenPlusError", {})
    ELSE IF throws \/ ~found
    THEN Ret(c, "AspenPlusError", {})
    ELSE Ret(c, NoExc, {})

\* the attributes of the found item that set_stream assigns: each write is
\* guarded by hasattr, temperature and pressure also by the record's field
Com_set_stream_written(stream, has_TotalFlow, has_Temperature, has_Pressure) ==
    (IF has_TotalFlow THEN {"TotalFlow"} ELSE {})
    \cup (IF stream.temperature # None /\ has_Temperature THEN {"Temperature"} ELSE {})
    \cup (IF stream.pressure # None /\ has_Pressure THEN {"Pressure"} ELSE {})

\* get_streams: has_coll is whether doc has MaterialStreams or Streams,
\* throws whether Count or Item raises, items what the collection holds.  An
\* item's attribute is None when the item does not have it; its Composition
\* is "absent", "raises" (iterating it fails), "no_fraction" (one component
\* without MoleFraction) or "ok" (one component with mole fraction 1)
Com_get_streams(c, has_coll, throws, items) ==
    IF c.doc = None \/ ~has_coll
    THEN [exc |-> "AspenPlusError", ret |-> None]
    ELSE IF throws
    THEN [exc |-> "AspenPlusError", ret |-> None]
    ELSE [exc |-> NoExc,
          ret |-> Some([i \in DOMAIN items |->
                    Stream(IF items[i].Name # None THEN items[i].Name[1]
                           ELSE <<"Stream_1", "Stream_2">>[i],
                           IF items[i].TotalFlow # None THEN items[i].TotalFlow[1] ELSE 0,
                           items[i].Temperature,
                           items[i].Pressure,
                           Some(CASE items[i].Composition = "ok" -> {<<"H2O", 1>>}
                                  [] items[i].Composition = "no_fraction" -> {<<"H2O", 0>>}
                                  [] OTHER -> {}))])]

\* save(path): path is None or a string
Com_save(c, path, has_SaveAs, has_Save, throws) ==
    IF path # None /\ path # Some("")
    THEN IF c.doc # None /\ has_SaveAs
         THEN Ret(c, IF throws THEN "AspenPlusError" ELSE NoExc, {})
         ELSE Ret(c, "AspenPlusError", {})
    ELSE IF c.doc # None /\ has_Save
         THEN Ret(c, IF throws THEN "AspenPlusError" ELSE NoExc, {})
         ELSE Ret(c, NoExc, {})

\* close: doc.Close() may throw, which is swallowed; the finally clause
\* clears both fields
Com_close(c) == [app |-> None, doc |-> None]

----------------------------------------------------------------------------
(* AspenPlusClient (client.py:222-266)                                     *)

Backends == {"mock", "com"}

\* the backend object, whichever class it is
Backend == [mock |-> Mock, com |-> Com]

\* got: what the external application held and what the call returned or
\* wrote there, for the two stream calls
Call(op, exc, name, rec, dirty) ==
    [op |-> op, exc |-> exc, name |-> name, rec |-> rec, dirty |-> dirty,
     got |-> None]

SetBackend(o) ==
    /\ _streams' = o.mock.streams
    /\ _open' = o.mock.open
    /\ _case' = o.mock.case
    /\ app' = o.com.app
    /\ doc' = o.com.doc

\* an exception raised inside the with-block is in flight until the block
\* handles it or it leaves the block; outside the block the caller has it
Raise(exc) == raised' = IF cm_pc = "body" THEN exc ELSE NoExc

Ready == backend_name \in Backends /\ raised = NoExc

\* what the external application answers is drawn only when the backend talks
\* to it: the mock backend never does
ComEnv(S) == IF backend_name = "com" THEN S ELSE {CHOOSE x \in S : TRUE}

\* AspenPlusClient.__init__
Client_init(backend) ==
    /\ backend_name = "unbuilt"
    /\ ctor_exc = NoExc
    /\ IF backend = "mock"
       THEN /\ backend_name' = "mock"
            /\ SetBackend([mock |-> MockInit, com |-> Com])
            /\ UNCHANGED ctor_exc
       ELSE IF backend = "com"
       THEN IF COMBackend_init(win32com) = NoExc
            THEN /\ backend_name' = "com"
                 /\ SetBackend([mock |-> Mock, com |-> ComInit])
                 /\ UNCHANGED ctor_exc
            ELSE /\ ctor_exc' = COMBackend_init(win32com)
                 /\ UNCHANGED <<backend_name, _streams, _open, _case, app, doc>>
       ELSE /\ ctor_exc' = "AspenPlusError"
            /\ UNCHANGED <<backend_name, _streams, _open, _case, app, doc>>
    /\ last' = Call("__init__", ctor_exc', None, None, FALSE)
    /\ UNCHANGED <<simVars, sweepVars, win32com, windows, opened, dispatched, cm_pc, cm_exc,
                   cm_closed, raised>>

\* backend.close()
Backend_close(kind, o) ==
    IF kind = "mock" THEN [o EXCEPT !.mock = Mock_close(o.mock)]
    ELSE [o EXCEPT !.com = Com_close(o.com)]

\* the generator without its finally clause: close only when the block ends
\* normally
Connect_exit_nofinally(kind, o, exc) ==
    IF exc = NoExc THEN [obj |-> Backend_close(kind, o), closed |-> TRUE, exc |-> exc]
    ELSE [obj |-> o, closed |-> FALSE, exc |-> exc]

\* connect(), from the exception (or none) reaching the try statement to the
\* end of the finally clause: close is called, what close raises is
\* swallowed, and the exception goes on to the caller
Connect_exit(kind, o, exc) ==
    [obj |-> Backend_close(kind, o), closed |-> TRUE, exc |-> exc]

\* connect(), up to the yield
Client_connect ==
    /\ Ready
    /\ cm_pc \in {"idle", "exited"}
    /\ \E dispatch_ok \in ComEnv(BOOLEAN), active_doc \in ComEnv({"doc", "absent", "raises"}) :
         LET r == IF backend_name = "mock"
                  THEN [obj |-> [Backend EXCEPT !.mock = Mock_connect(Mock)],
                        exc |-> NoExc, n |-> 0]
                  ELSE LET c == Com_connect(Com, windows, dispatch_ok, active_doc,
                                            dispatched + 1)
                       IN  [obj |-> [Backend EXCEPT !.com = c.obj], exc |-> c.exc,
                            n |-> IF c.obj.app # Com.app THEN 1 ELSE 0]
               x == Connect_exit(backend_name, r.obj, r.exc)
           IN  /\ dispatched + r.n <= MaxDispatch
               /\ dispatched' = dispatched + r.n
               /\ last' = Call("connect", r.exc, None, None, FALSE)
               /\ IF r.exc = NoExc
                  THEN /\ SetBackend(r.obj)
                       /\ cm_pc' = "body"
                       /\ cm_exc' = NoExc
                       /\ cm_closed' = FALSE
                  ELSE /\ SetBackend(x.obj)
                       /\ cm_pc' = "exited"
                       /\ cm_exc' = x.exc
                       /\ cm_closed' = x.closed
    /\ UNCHANGED <<simVars, sweepVars, win32com, windows, backend_name, ctor_exc, opened, raised>>

\* the with-block ends, normally or with the exception in flight
Client_connect_exit ==
    /\ backend_name \in Backends
    /\ cm_pc = "body"
    /\ LET x == Connect_exit(backend_name, Backend, raised)
       IN  /\ SetBackend(x.obj)
           /\ cm_pc' = "exited"
           /\ cm_exc' = x.exc
           /\ cm_closed' = x.closed
    /\ raised' = NoExc
    /\ last' = Call("exit", raised, None, None, FALSE)
    /\ UNCHANGED <<simVars, sweepVars, win32com, windows, backend_name, ctor_exc, opened, dispatched>>

\* code of the with-block other than a client call raises
Body_raise ==
    /\ Ready
    /\ cm_pc = "body"
    /\ raised' = "UserError"
    /\ last' = Call("raise", "UserError", None, None, FALSE)
    /\ UNCHANGED <<simVars, sweepVars, win32com, windows, backend_name, ctor_exc, _streams, _open,
                   _case, app, doc, opened, dispatched, cm_pc, cm_exc, cm_closed>>

\* the with-block handles the exception in flight
Body_except ==
    /\ backend_name \in Backends
    /\ cm_pc = "body"
    /\ raised # NoExc
    /\ raised' = NoExc
    /\ UNCHANGED <<simVars, sweepVars, win32com, windows, backend_name, ctor_exc, _streams, _open,
                   _case, app, doc, opened, dispatched, cm_pc, cm_exc, cm_closed,
                   last>>

Client_open_case(path) ==
    /\ Ready
    /\ \E has_OpenCase \in ComEnv(BOOLEAN), has_Open \in ComEnv(BOOLEAN), throws \in ComEnv(BOOLEAN) :
         LET r == IF backend_name = "mock"
                  THEN Ret([Backend EXCEPT !.mock = Mock_open_case(Mock, path)],
                           NoExc, {})
                  ELSE LET c == Com_open_case(Com, path, has_OpenCase, has_Open, throws)
                       IN  Ret([Backend EXCEPT !.com = c.obj], c.exc, c.calls)
         IN  /\ SetBackend(r.obj)
             /\ opened' = opened \cup r.calls
             /\ Raise(r.exc)
             /\ last' = Call("open_case", r.exc, Some(path), None,
                             backend_name = "mock" /\ _streams # Fixture)
    /\ UNCHANGED <<simVars, sweepVars, win32com, windows, backend_name, ctor_exc, dispatched, cm_pc,
                   cm_exc, cm_closed>>

Client_run ==
    /\ Ready
    /\ \E has_app_Run \in ComEnv(BOOLEAN), has_doc_Run \in ComEnv(BOOLEAN), throws \in ComEnv(BOOLEAN) :
         LET r == IF backend_name = "mock"
                  THEN Ret([Backend EXCEPT !.mock = Mock_run(Mock)], NoExc, {})
                  ELSE LET c == Com_run(Com, has_app_Run, has_doc_Run, throws)
                       IN  Ret([Backend EXCEPT !.com = c.obj], c.exc, c.calls)
         IN  /\ SetBackend(r.obj)
             /\ Raise(r.exc)
             /\ last' = Call("run", r.exc, None, None, FALSE)
    /\ UNCHANGED <<simVars, sweepVars, win32com, windows, backend_name, ctor_exc, opened, dispatched,
                   cm_pc, cm_exc, cm_closed>>

Client_set_stream(name, stream) ==
    /\ Ready
    /\ \E has_coll \in ComEnv(BOOLEAN), found \in ComEnv(BOOLEAN), throws \in ComEnv(BOOLEAN),
          has_TotalFlow \in ComEnv(BOOLEAN), has_Temperature \in ComEnv(BOOLEAN),
          has_Pressure \in ComEnv(BOOLEAN) :
         LET r == IF backend_name = "mock"
                  THEN Ret([Backend EXCEPT !.mock = Mock_set_stream(Mock, name, stream)],
                           NoExc, {})
                  ELSE LET c == Com_set_stream(Com, name, stream, has_coll, found, throws)
                       IN  Ret([Backend EXCEPT !.com = c.obj], c.exc, c.calls)
         IN  /\ SetBackend(r.obj)
             /\ Raise(r.exc)
             /\ last' = [Call("set_stream", r.exc, Some(name), Some(stream), FALSE)
                           EXCEPT !.got =
                               IF backend_name = "com" /\ r.exc = NoExc
                               THEN Some(Com_set_stream_written(stream, has_TotalFlow,
                                             has_Temperature, has_Pressure))
                               ELSE None]
    /\ UNCHANGED <<simVars, sweepVars, win32com, windows, backend_name, ctor_exc, opened, dispatched,
                   cm_pc, cm_exc, cm_closed>>

\* get_streams: the mock returns its table's values; the COM backend reads
\* a collection of at most one item
Client_get_streams ==
    /\ Ready
    /\ \E has_coll \in ComEnv(BOOLEAN), throws \in ComEnv(BOOLEAN),
          items \in ComEnv({<<>>} \cup
                      {<<[Name |-> n, TotalFlow |-> f, Temperature |-> tp[1],
                          Pressure |-> tp[2], Composition |-> co]>> :
                        n \in {None, Some("F1")}, f \in {None, Some(1000)},
                        tp \in {<<None, None>>, <<Some(300), Some(101325)>>},
                        co \in {"absent", "raises", "no_fraction", "ok"}}) :
         LET r == IF backend_name = "mock"
                  THEN [exc |-> NoExc, ret |-> Some(Mock_get_streams(Mock))]
                  ELSE Com_get_streams(Com, has_coll, throws, items)
         IN  /\ Raise(r.exc)
             /\ last' = [Call("get_streams", r.exc, None, None, FALSE)
                           EXCEPT !.got = IF r.exc = NoExc
                                          THEN Some([held |-> items, ret |-> r.ret[1]])
                                          ELSE None]
    /\ UNCHANGED <<simVars, sweepVars, win32com, windows, backend_name, ctor_exc, _streams,
                   _open, _case, app, doc, opened, dispatched, cm_pc, cm_exc, cm_closed>>

Client_save(path) ==
    /\ Ready
    /\ \E has_SaveAs \in ComEnv(BOOLEAN), has_Save \in ComEnv(BOOLEAN), throws \in ComEnv(BOOLEAN) :
         LET r == IF backend_name = "mock"
                  THEN Ret(Backend, NoExc, {})
                  ELSE LET c == Com_save(Com, path, has_SaveAs, has_Save, throws)
                       IN  Ret([Backend EXCEPT !.com = c.obj], c.exc, c.calls)
         IN  /\ SetBackend(r.obj)
             /\ Raise(r.exc)
             /\ last' = Call("save", r.exc, path, None, FALSE)
    /\ UNCHANGED <<simVars, sweepVars, win32com, windows, backend_name, ctor_exc, opened, dispatched,
                   cm_pc, cm_exc, cm_closed>>

\* AspenPlusClient.close(), called by the user
Client_close ==
    /\ Ready
    /\ SetBackend(Backend_close(backend_name, Backend))
    /\ Raise(NoExc)
    /\ last' = Call("close", NoExc, None, None, FALSE)
    /\ UNCHANGED <<simVars, sweepVars, win32com, windows, backend_name, ctor_exc, opened, dispatched,
                   cm_pc, cm_exc, cm_closed>>

NotCalled == [op |-> "start", exc |-> NoExc, ret |-> None, arg |-> None]

\* the platform and the external application before the program starts
Platform ==
    /\ win32com \in BOOLEAN
    /\ windows \in BOOLEAN
    /\ opened = {}
    /\ dispatched = 0

ClientStart(name) ==
    /\ backend_name = name
    /\ ctor_exc = NoExc
    /\ _streams = MockInit.streams
    /\ _open = MockInit.open
    /\ _case = MockInit.case
    /\ app = ComInit.app
    /\ doc = ComInit.doc
    /\ cm_pc = "idle"
    /\ cm_exc = NoExc
    /\ cm_closed = FALSE
    /\ raised = NoExc
    /\ last = Call("start", NoExc, None, None, FALSE)

SimStart(state) ==
    /\ sim_state = state
    /\ AspenSimulation = None
    /\ duration = None
    /\ converged = None
    /\ solved = FALSE
    /\ call = NotCalled

NoApiCall == [op |-> "start", exc |-> NoExc, log |-> <<>>]

\* no script's main block is running
NoMain == [script |-> "unused", pc |-> "unused", path |-> None, out |-> <<>>,
           status |-> None, diagnostic |-> "none"]

SweepStart(pc, kind) ==
    /\ sweep_pc = pc
    /\ sweep_kind = kind
    /\ sweep_idx = 0
    /\ rows = <<>>
    /\ csv = None
    /\ api_call = NoApiCall
    /\ main = NoMain

SweepUnused == SweepStart("unused", "api")

InitClient ==
    Platform /\ ClientStart("unbuilt") /\ SimStart("unused") /\ SweepUnused

NextClient ==
    \/ \E backend \in {"mock", "com", "other"} : Client_init(backend)
    \/ Client_connect
    \/ Client_connect_exit
    \/ Body_raise
    \/ Body_except
    \/ \E path \in Paths : Client_open_case(path)
    \/ Client_run
    \/ \E name \in StreamNames, stream \in StreamInputs : Client_set_stream(name, stream)
    \/ Client_get_streams
    \/ \E path \in {None} \cup {Some(p) : p \in Paths} : Client_save(path)
    \/ Client_close

----------------------------------------------------------------------------
(* Simulation (api/com_simulation.py).  A handler returns what it leaves   *)
(* in the object, the exception it raises and what it returns.             *)

\* Simulation.__init__ up to the dispatch: gencache.EnsureDispatch, then
\* Dispatch, then RuntimeError
Sim_dispatch(ensure_ok, dispatch_ok) ==
    IF ensure_ok \/ dispatch_ok THEN NoExc ELSE "RuntimeError"

open_flowsheet_nocheck(path, has_InitFromArchive, has_InitFromFile, has_Open, throws) ==
    IF has_InitFromArchive
    THEN [exc |-> IF throws THEN "RuntimeError" ELSE NoExc,
          calls |-> {<<"InitFromArchive", path>>}]
    ELSE IF has_InitFromFile
    THEN [exc |-> IF throws THEN "RuntimeError" ELSE NoExc,
          calls |-> {<<"InitFromFile", path>>}]
    ELSE IF has_Open
    THEN [exc |-> IF throws THEN "RuntimeError" ELSE NoExc,
          calls |-> {<<"Open", path>>}]
    ELSE [exc |-> "RuntimeError", calls |-> {}]

\* Simulation._open_flowsheet
open_flowsheet(path, has_InitFromArchive, has_InitFromFile, has_Open, throws) ==
    IF ~exists(path)
    THEN [exc |-> "FileNotFoundError", calls |-> {}]
    ELSE IF has_InitFromArchive
    THEN [exc |-> IF throws THEN "RuntimeError" ELSE NoExc,
          calls |-> {<<"InitFromArchive", path>>}]
    ELSE IF has_InitFromFile
    THEN [exc |-> IF throws THEN "RuntimeError" ELSE NoExc,
          calls |-> {<<"InitFromFile", path>>}]
    ELSE IF has_Open
    THEN [exc |-> IF throws THEN "RuntimeError" ELSE NoExc,
          calls |-> {<<"Open", path>>}]
    ELSE [exc |-> "RuntimeError", calls |-> {}]

\* One pass of the per-stage loop, for idx .. N_stages.  primary[idx] and
\* fallback[idx] are what the two lookups of stage idx give: None when the
\* node does not resolve or its value is no float, else the value.
RECURSIVE stage_loop_skip(_, _, _, _, _)
stage_loop_skip(idx, N_stages, primary, fallback, arr) ==
    IF idx > N_stages THEN arr
    ELSE IF primary[idx] # None
    THEN stage_loop_skip(idx + 1, N_stages, primary, fallback,
                         Append(arr, primary[idx][1]))
    ELSE IF fallback[idx] # None
    THEN stage_loop_skip(idx + 1, N_stages, primary, fallback,
                         Append(arr, fallback[idx][1]))
    ELSE stage_loop_skip(idx + 1, N_stages, primary, fallback, arr)

\* a loop that gives up the fallback once a stage failed in both lookups
RECURSIVE stage_loop_poisoned(_, _, _, _, _)
stage_loop_poisoned(idx, N_stages, primary, fallback, arr) ==
    IF idx > N_stages THEN arr
    ELSE IF primary[idx] # None
    THEN stage_loop_poisoned(idx + 1, N_stages, primary, fallback,
                             Append(arr, primary[idx][1]))
    ELSE IF fallback[idx] # None /\ (arr = <<>> \/ arr[Len(arr)] # 0)
    THEN stage_loop_poisoned(idx + 1, N_stages, primary, fallback,
                             Append(arr, fallback[idx][1]))
    ELSE stage_loop_poisoned(idx + 1, N_stages, primary, fallback, Append(arr, 0))

RECURSIVE stage_loop(_, _, _, _, _)
stage_loop(idx, N_stages, primary, fallback, arr) ==
    IF idx > N_stages THEN arr
    ELSE IF primary[idx] # None
    THEN stage_loop(idx + 1, N_stages, primary, fallback,
                    Append(arr, primary[idx][1]))
    ELSE IF fallback[idx] # None
    THEN stage_loop(idx + 1, N_stages, primary, fallback,
                    Append(arr, fallback[idx][1]))
    ELSE stage_loop(idx + 1, N_stages, primary, fallback, Append(arr, 0))

\* the three reads differ in the node they read: STAGE\MW, STAGE\TEMP,
\* STAGE\VAPOR
BLK_Get_Column_Stage_Molar_Weights(N_stages, primary, fallback) ==
    stage_loop(1, N_stages, primary, fallback, <<>>)

BLK_Get_Column_Stage_Temperatures(N_stages, primary, fallback) ==
    stage_loop(1, N_stages, primary, fallback, <<>>)

BLK_Get_Column_Stage_Vapor_Flows(N_stages, primary, fallback) ==
    stage_loop(1, N_stages, primary, fallback, <<>>)

StageReads == {"MW", "TEMP", "VAPOR"}

BLK_Get_Column_Stage(node, N_stages, primary, fallback) ==
    IF node = "MW" THEN BLK_Get_Column_Stage_Molar_Weights(N_stages, primary, fallback)
    ELSE IF node = "TEMP"
    THEN BLK_Get_Column_Stage_Temperatures(N_stages, primary, fallback)
    ELSE BLK_Get_Column_Stage_Vapor_Flows(N_stages, primary, fallback)

\* Run.  entry is the first run entrypoint hasattr finds ("none": there is
\* none), throws whether that call throws, conv what reading Converged gives
\* ("absent", "true", "false", "raises"), elapsed the time the call took.
RunEntries == {"Engine.Run2", "Engine.Run", "Run2", "Run", "none"}

ConvergedReads == {"absent", "true", "false", "raises"}

Run_keepflag(s, entry, throws, conv, elapsed) ==
    IF entry = "none" \/ throws
    THEN [duration |-> Some(elapsed), converged |-> s.converged,
          exc |-> "RuntimeError",
          runs |-> IF entry = "none" THEN <<>> ELSE <<entry>>]
    ELSE [duration |-> Some(elapsed),
          converged |-> IF conv = "false" THEN Some(FALSE) ELSE Some(TRUE),
          exc |-> NoExc, runs |-> <<entry>>]

\* a Run that invokes the entrypoint a second time when the first throws
Run_retry(s, entry, throws, conv, elapsed) ==
    IF entry = "none" \/ throws
    THEN [duration |-> Some(elapsed), converged |-> Some(FALSE),
          exc |-> "RuntimeError",
          runs |-> IF entry = "none" THEN <<>> ELSE <<entry, entry>>]
    ELSE [duration |-> Some(elapsed),
          converged |-> IF conv = "false" THEN Some(FALSE) ELSE Some(TRUE),
          exc |-> NoExc, runs |-> <<entry>>]

Run(s, entry, throws, conv, elapsed) ==
    IF entry = "none" \/ throws
    THEN [duration |-> Some(elapsed), converged |-> Some(FALSE),
          exc |-> "RuntimeError",
          runs |-> IF entry = "none" THEN <<>> ELSE <<entry>>]
    ELSE [duration |-> Some(elapsed),
          converged |-> IF conv = "false" THEN Some(FALSE) ELSE Some(TRUE),
          exc |-> NoExc, runs |-> <<entry>>]

\* what the external application answers to a Simulation that exists; COM
\* dispatch succeeds on Windows only
WinEnv(S) == IF windows THEN S ELSE {FALSE}

SimCall(op, exc, ret, arg) == [op |-> op, exc |-> exc, ret |-> ret, arg |-> arg]

\* import of com_simulation (lines 16-19), then Simulation.__init__
Sim_init_step(flowsheet_path) ==
    /\ sim_state = "unbuilt"
    /\ IF ~win32com
       THEN /\ sim_state' = "failed"
            /\ call' = SimCall("import", "RuntimeError", None, flowsheet_path)
            /\ UNCHANGED <<AspenSimulation, duration, converged, solved, opened,
                           dispatched>>
       ELSE \E ensure_ok \in WinEnv(BOOLEAN), dispatch_ok \in WinEnv(BOOLEAN),
               has_InitFromArchive \in BOOLEAN, has_InitFromFile \in BOOLEAN,
               has_Open \in BOOLEAN, throws \in BOOLEAN :
            IF Sim_dispatch(ensure_ok, dispatch_ok) # NoExc
            THEN /\ sim_state' = "failed"
                 /\ call' = SimCall("__init__", Sim_dispatch(ensure_ok, dispatch_ok),
                                    None, flowsheet_path)
                 /\ UNCHANGED <<AspenSimulation, duration, converged, solved, opened,
                                dispatched>>
            ELSE LET o == IF flowsheet_path # None /\ flowsheet_path # Some("")
                          THEN open_flowsheet(flowsheet_path[1], has_InitFromArchive,
                                              has_InitFromFile, has_Open, throws)
                          ELSE [exc |-> NoExc, calls |-> {}]
                 IN  /\ dispatched' = dispatched + 1
                     /\ AspenSimulation' = Some(dispatched + 1)
                     /\ duration' = None
                     /\ converged' = None
                     /\ solved' = FALSE
                     /\ opened' = opened \cup o.calls
                     /\ sim_state' = IF o.exc = NoExc THEN "built" ELSE "failed"
                     /\ call' = SimCall("__init__", o.exc, None, flowsheet_path)
    /\ UNCHANGED <<clientVars_own, win32com, windows>>

Sim_init(flowsheet_path) == Sim_init_step(flowsheet_path) /\ UNCHANGED sweepVars

Sim_open_flowsheet(path) ==
    /\ sim_state = "built"
    /\ \E has_InitFromArchive \in BOOLEAN, has_InitFromFile \in BOOLEAN,
          has_Open \in BOOLEAN, throws \in BOOLEAN :
         LET o == open_flowsheet(path, has_InitFromArchive, has_InitFromFile,
                                 has_Open, throws)
         IN  /\ opened' = opened \cup o.calls
             /\ call' = SimCall("_open_flowsheet", o.exc, None, Some(path))
    /\ UNCHANGED <<clientVars_own, sweepVars, win32com, windows, dispatched,
                   sim_state, AspenSimulation, duration, converged, solved>>

\* what the lookups of stages 1 .. N give: v is the value a node holds
StageValues(N, v) == [1 .. N -> {None, Some(v)}]

Sim_stage_read(node, N_stages) ==
    /\ sim_state = "built"
    /\ \E primary \in StageValues(N_stages, 5), fallback \in StageValues(N_stages, 7) :
         call' = SimCall(node, NoExc,
                         Some(BLK_Get_Column_Stage(node, N_stages, primary, fallback)),
                         [N_stages |-> N_stages, primary |-> primary,
                          fallback |-> fallback])
    /\ UNCHANGED <<clientVars_own, sweepVars, win32com, windows, opened, dispatched,
                   sim_state, AspenSimulation, duration, converged, solved>>

Sim_Run_step(entries, convs, elapseds) ==
    /\ sim_state = "built"
    /\ \E entry \in entries, throws \in BOOLEAN, conv \in convs,
          elapsed \in elapseds :
         LET r == Run([duration |-> duration, converged |-> converged],
                      entry, throws, conv, elapsed)
         IN  /\ duration' = r.duration
             /\ converged' = r.converged
             /\ solved' = (solved \/ (r.exc = NoExc /\ r.converged = Some(TRUE)))
             /\ call' = SimCall("Run", r.exc, r.runs,
                                [entry |-> entry, throws |-> throws,
                                 conv |-> conv, elapsed |-> elapsed,
                                 before |-> converged])
    /\ UNCHANGED <<clientVars_own, win32com, windows, opened, dispatched, sim_state,
                   AspenSimulation>>

Sim_Run ==
    Sim_Run_step(RunEntries, ConvergedReads, 0 .. MaxElapsed) /\ UNCHANGED sweepVars

InitSim ==
    Platform /\ ClientStart("unused") /\ SimStart("unbuilt") /\ SweepUnused

----------------------------------------------------------------------------
(* Simulation: stream and block setters and getters (com_simulation.py     *)
(* 76-223).  Each tries its node paths in order; ok[i] is whether the      *)
(* access through the i-th path succeeds.  The result holds the exception, *)
(* the accesses attempted, and via, the index of the path that succeeded   *)
(* (0: none).                                                              *)

\* a chain that completes silently when no path resolves
RECURSIVE try_paths_silent(_, _, _, _)
try_paths_silent(i, paths, ok, attempts) ==
    IF i > Len(paths)
    THEN [exc |-> NoExc, attempts |-> attempts, via |-> 0]
    ELSE IF ok[i]
    THEN [exc |-> NoExc, attempts |-> Append(attempts, <<paths[i], TRUE>>), via |-> i]
    ELSE try_paths_silent(i + 1, paths, ok, Append(attempts, <<paths[i], FALSE>>))

RECURSIVE try_paths(_, _, _, _)
try_paths(i, paths, ok, attempts) ==
    IF i > Len(paths)
    THEN [exc |-> "RuntimeError", attempts |-> attempts, via |-> 0]
    ELSE IF ok[i]
    THEN [exc |-> NoExc, attempts |-> Append(attempts, <<paths[i], TRUE>>), via |-> i]
    ELSE try_paths(i + 1, paths, ok, Append(attempts, <<paths[i], FALSE>>))

STRM_Temperature_paths(Name) ==
    << <<"Streams", Name, "Input", "TEMP", "MIXED">>,
       <<"Streams", Name, "Input", "TEMP">> >>

STRM_Temperature(Name, ok) == try_paths(1, STRM_Temperature_paths(Name), ok, <<>>)

STRM_Pressure_paths(Name) ==
    << <<"Streams", Name, "Input", "PRES", "MIXED">>,
       <<"Streams", Name, "Input", "PRES">> >>

STRM_Pressure(Name, ok) == try_paths(1, STRM_Pressure_paths(Name), ok, <<>>)

STRM_Flowrate_paths(Name, Chemical) ==
    << <<"Streams", Name, "Input", "MOLEFLMX", Chemical>>,
       <<"Streams", Name, "Input", "MOLFRAC", Chemical>>,
       <<"Streams", Name, "Input", Chemical>> >>

STRM_Flowrate(Name, Chemical, ok) ==
    try_paths(1, STRM_Flowrate_paths(Name, Chemical), ok, <<>>)

STRM_Get_Outputs_paths(Name, Chemical) ==
    << <<"Streams", Name, "Output", "MOLEFLMX", Chemical, "MIXED">>,
       <<"Streams", Name, "Output", "MASSFLOW3", Chemical>>,
       <<"Streams", Name, "Output", Chemical>> >>

STRM_Get_Outputs(Name, Chemical, ok) ==
    try_paths(1, STRM_Get_Outputs_paths(Name, Chemical), ok, <<>>)

STRM_Get_Temperature_paths(Name) ==
    << <<"Streams", Name, "Output", "TEMP_OUT", "MIXED">>,
       <<"Streams", Name, "Output", "TEMP", "MIXED">>,
       <<"Streams", Name, "Output", "TEMP">> >>

STRM_Get_Temperature(Name, ok) ==
    try_paths(1, STRM_Get_Temperature_paths(Name), ok, <<>>)

STRM_Get_Pressure_paths(Name) ==
    << <<"Streams", Name, "Output", "PRES_OUT", "MIXED">>,
       <<"Streams", Name, "Output", "PRES", "MIXED">>,
       <<"Streams", Name, "Output", "PRES">> >>

STRM_Get_Pressure(Name, ok) ==
    try_paths(1, STRM_Get_Pressure_paths(Name), ok, <<>>)

BLK_NumberOfStages(ok) ==
    try_paths(1, << <<"Blocks", "B1", "Input", "NSTAGE">> >>, ok, <<>>)

BLK_FeedLocation(Feed_Name, ok) ==
    try_paths(1, << <<"Blocks", "B1", "Input", "FEED_STAGE", Feed_Name>>,
                    <<"Blocks", "B1", "Input", "FEED_STAGE">> >>, ok, <<>>)

BLK_Pressure(ok) ==
    try_paths(1, << <<"Blocks", "B1", "Input", "PRES1">>,
                    <<"Blocks", "B1", "Input", "PRES">> >>, ok, <<>>)

BLK_RefluxRatio(ok) ==
    try_paths(1, << <<"Blocks", "B1", "Input", "BASIS_RR">>,
                    <<"Blocks", "B1", "Input", "REFLUX">> >>, ok, <<>>)

BLK_ReboilerRatio(ok) ==
    try_paths(1, << <<"Blocks", "B1", "Input", "BASIS_BR">>,
                    <<"Blocks", "B1", "Input", "REBOILER">> >>, ok, <<>>)

BLK_Get_Condenser_Duty(ok) ==
    try_paths(1, << <<"Blocks", "B1", "Output", "COND_DUTY", "MIXED">>,
                    <<"Blocks", "B1", "Output", "CONDENER_DUTY">> >>, ok, <<>>)

BLK_Get_Reboiler_Duty(ok) ==
    try_paths(1, << <<"Blocks", "B1", "Output", "REB_DUTY", "MIXED">>,
                    <<"Blocks", "B1", "Output", "REBOILER_DUTY">> >>, ok, <<>>)

\* the number of node paths of each setter and getter
NPaths(op) ==
    CASE op = "BLK_NumberOfStages" -> 1
      [] op \in {"STRM_Flowrate", "STRM_Get_Outputs", "STRM_Get_Temperature",
                 "STRM_Get_Pressure"} -> 3
      [] OTHER -> 2

Getters == {"STRM_Get_Outputs", "STRM_Get_Temperature", "STRM_Get_Pressure",
            "BLK_Get_Condenser_Duty", "BLK_Get_Reboiler_Duty"}

\* a setter or getter called with stream name d.name and component d.comp
Access(d, ok) ==
    CASE d.op = "STRM_Temperature" -> STRM_Temperature(d.name, ok)
      [] d.op = "STRM_Pressure" -> STRM_Pressure(d.name, ok)
      [] d.op = "STRM_Flowrate" -> STRM_Flowrate(d.name, d.comp, ok)
      [] d.op = "STRM_Get_Outputs" -> STRM_Get_Outputs(d.name, d.comp, ok)
      [] d.op = "STRM_Get_Temperature" -> STRM_Get_Temperature(d.name, ok)
      [] d.op = "STRM_Get_Pressure" -> STRM_Get_Pressure(d.name, ok)
      [] d.op = "BLK_NumberOfStages" -> BLK_NumberOfStages(ok)
      [] d.op = "BLK_FeedLocation" -> BLK_FeedLocation(d.name, ok)
      [] d.op = "BLK_Pressure" -> BLK_Pressure(ok)
      [] d.op = "BLK_RefluxRatio" -> BLK_RefluxRatio(ok)
      [] d.op = "BLK_ReboilerRatio" -> BLK_ReboilerRatio(ok)
      [] d.op = "BLK_Get_Condenser_Duty" -> BLK_Get_Condenser_Duty(ok)
      [] d.op = "BLK_Get_Reboiler_Duty" -> BLK_Get_Reboiler_Duty(ok)

\* what the text of the RuntimeError names: the operation with its property
\* and the identifiers formatted into the message
error_message(d) ==
    CASE d.op = "STRM_Temperature" -> {"set stream temperature", d.name}
      [] d.op = "STRM_Pressure" -> {"set stream pressure", d.name}
      [] d.op = "STRM_Flowrate" -> {"set stream flowrate", d.name, d.comp}
      [] d.op = "STRM_Get_Outputs" -> {"get stream outputs", d.name, d.comp}
      [] d.op = "STRM_Get_Temperature" -> {"read stream temperature", d.name}
      [] d.op = "STRM_Get_Pressure" -> {"read stream pressure", d.name}
      [] d.op = "BLK_NumberOfStages" -> {"set number of stages"}
      [] d.op = "BLK_FeedLocation" -> {"set feed location"}
      [] d.op = "BLK_Pressure" -> {"set block pressure"}
      [] d.op = "BLK_RefluxRatio" -> {"set reflux ratio"}
      [] d.op = "BLK_ReboilerRatio" -> {"set reboiler ratio"}
      [] d.op = "BLK_Get_Condenser_Duty" -> {"read condenser duty", "B1"}
      [] d.op = "BLK_Get_Reboiler_Duty" -> {"read reboiler duty", "B1"}

StreamOps == {"STRM_Temperature", "STRM_Pressure", "STRM_Flowrate",
              "STRM_Get_Outputs", "STRM_Get_Temperature", "STRM_Get_Pressure"}

BlockOps == {"BLK_NumberOfStages", "BLK_FeedLocation", "BLK_Pressure",
             "BLK_RefluxRatio", "BLK_ReboilerRatio", "BLK_Get_Condenser_Duty",
             "BLK_Get_Reboiler_Duty"}

\* the calls a program makes: stream S1, component ETHANE
AccessCalls ==
    {[op |-> op, name |-> "S1", comp |-> "ETHANE"] : op \in StreamOps \cup BlockOps}

\* one setter or getter call; a getter returns the value of the node read
Sim_access(d) ==
    /\ sim_state = "built"
    /\ \E ok \in [1 .. NPaths(d.op) -> BOOLEAN] :
         LET r == Access(d, ok)
         IN  call' = SimCall(d.op, r.exc,
                             IF r.exc = NoExc /\ d.op \in Getters THEN Some("out")
                             ELSE None,
                             [d |-> d, ok |-> ok, attempts |-> r.attempts,
                              via |-> r.via,
                              msg |-> IF r.exc = NoExc THEN {} ELSE error_message(d)])
    /\ UNCHANGED <<clientVars_own, sweepVars, win32com, windows, opened, dispatched,
                   sim_state, AspenSimulation, duration, converged, solved>>

NextSim ==
    \/ \E path \in {None} \cup {Some(p) : p \in Paths} : Sim_init(path)
    \/ \E path \in Paths : Sim_open_flowsheet(path)
    \/ \E node \in StageReads, N_stages \in -1 .. MaxStages :
         Sim_stage_read(node, N_stages)
    \/ Sim_Run
    \/ \E d \in AccessCalls : Sim_access(d)

----------------------------------------------------------------------------
(* AspenAPI (api/aspen_api.py).  A facade method is a fixed sequence of    *)
(* primitive Simulation calls; the first that raises ends it.  When the    *)
(* facade is driven, the external tree answers by variant, the naming      *)
(* convention of the installed version (the first variant - 1 paths of a   *)
(* primitive do not resolve, the last path standing for every later        *)
(* convention), and fail_at, the position of the primitive call for which  *)
(* no path resolves (0: none); FailAts picks the first and the last call.  *)

_feed_name == "S1"

_tops_name == "S2"

_bottoms_name == "S3"

\* _name_to_aspen_name, in field order
_name_to_aspen_name ==
    <<"ETHANE", "PROPANE", "I-BUTANE", "N-BUTANE", "I-PENTAN", "N-PENTAN">>

Variants == {1, 2}

OkOf(n, variant, fails) ==
    [i \in 1 .. n |-> ~fails /\ i >= (IF variant > n THEN n ELSE variant)]

FailAts(ds) == {0, 1, Len(ds)}

P(op, name, comp) == [op |-> op, name |-> name, comp |-> comp]

\* one primitive call of a facade method
Prim(d, variant, fails) ==
    CASE d.op = "STRM_Temperature" -> STRM_Temperature(d.name, OkOf(2, variant, fails))
      [] d.op = "STRM_Pressure" -> STRM_Pressure(d.name, OkOf(2, variant, fails))
      [] d.op = "STRM_Flowrate" ->
            STRM_Flowrate(d.name, d.comp, OkOf(3, variant, fails))
      [] d.op = "STRM_Get_Outputs" ->
            STRM_Get_Outputs(d.name, d.comp, OkOf(3, variant, fails))
      [] d.op = "STRM_Get_Temperature" ->
            STRM_Get_Temperature(d.name, OkOf(3, variant, fails))
      [] d.op = "STRM_Get_Pressure" ->
            STRM_Get_Pressure(d.name, OkOf(3, variant, fails))
      [] d.op = "BLK_NumberOfStages" -> BLK_NumberOfStages(OkOf(1, variant, fails))
      [] d.op = "BLK_FeedLocation" -> BLK_FeedLocation(d.name, OkOf(2, variant, fails))
      [] d.op = "BLK_Pressure" -> BLK_Pressure(OkOf(2, variant, fails))
      [] d.op = "BLK_RefluxRatio" -> BLK_RefluxRatio(OkOf(2, variant, fails))
      [] d.op = "BLK_ReboilerRatio" -> BLK_ReboilerRatio(OkOf(2, variant, fails))
      [] d.op = "BLK_Get_Condenser_Duty" ->
            BLK_Get_Condenser_Duty(OkOf(2, variant, fails))
      [] d.op = "BLK_Get_Reboiler_Duty" ->
            BLK_Get_Reboiler_Duty(OkOf(2, variant, fails))

\* a method that goes on with its later statements after one raised and
\* reports the first error at the end
RECURSIVE call_seq_keep_going(_, _, _, _, _)
call_seq_keep_going(i, ds, variant, fail_at, log) ==
    IF i > Len(ds)
    THEN [exc |-> IF \E k \in DOMAIN log : log[k].exc # NoExc
                  THEN "RuntimeError" ELSE NoExc,
          log |-> log]
    ELSE LET r == Prim(ds[i], variant, i = fail_at)
             e == [op |-> ds[i].op, name |-> ds[i].name, comp |-> ds[i].comp,
                   exc |-> r.exc]
         IN  call_seq_keep_going(i + 1, ds, variant, fail_at, Append(log, e))

\* the statements of a facade method from the i-th on; the log holds each
\* primitive call made and the exception it raised
RECURSIVE call_seq(_, _, _, _, _)
call_seq(i, ds, variant, fail_at, log) ==
    IF i > Len(ds) THEN [exc |-> NoExc, log |-> log]
    ELSE LET r == Prim(ds[i], variant, i = fail_at)
             e == [op |-> ds[i].op, name |-> ds[i].name, comp |-> ds[i].comp,
                   exc |-> r.exc]
         IN  IF r.exc # NoExc
             THEN [exc |-> r.exc, log |-> Append(log, e)]
             ELSE call_seq(i + 1, ds, variant, fail_at, Append(log, e))

set_input_stream_specification_calls ==
    << P("STRM_Temperature", _feed_name, ""), P("STRM_Pressure", _feed_name, "") >>
    \o [k \in 1 .. Len(_name_to_aspen_name) |->
            P("STRM_Flowrate", _feed_name, _name_to_aspen_name[k])]

set_input_stream_specification(variant, fail_at) ==
    call_seq(1, set_input_stream_specification_calls, variant, fail_at, <<>>)

stream_reads(name) ==
    << P("STRM_Get_Temperature", name, ""), P("STRM_Get_Pressure", name, "") >>
    \o [k \in 1 .. Len(_name_to_aspen_name) |->
            P("STRM_Get_Outputs", name, _name_to_aspen_name[k])]

get_output_stream_specifications_calls ==
    stream_reads(_tops_name) \o stream_reads(_bottoms_name)

get_output_stream_specifications(variant, fail_at) ==
    call_seq(1, get_output_stream_specifications_calls, variant, fail_at, <<>>)

set_column_specification_calls ==
    << P("BLK_NumberOfStages", "B1", ""), P("BLK_FeedLocation", _feed_name, ""),
       P("BLK_Pressure", "B1", ""), P("BLK_RefluxRatio", "B1", ""),
       P("BLK_ReboilerRatio", "B1", "") >>

set_column_specification(variant, fail_at) ==
    call_seq(1, set_column_specification_calls, variant, fail_at, <<>>)

\* the two duty reads; the three per-stage reads that follow do not raise
get_simulated_column_properties_calls ==
    << P("BLK_Get_Condenser_Duty", "B1", ""), P("BLK_Get_Reboiler_Duty", "B1", "") >>

get_simulated_column_properties(variant, fail_at) ==
    call_seq(1, get_simulated_column_properties_calls, variant, fail_at, <<>>)

----------------------------------------------------------------------------
(* AspenAPI: the cost and valuation helpers (aspen_api.py:102-139).  A     *)
(* CAL_ routine is an optional attribute of the flowsheet object: has_ is  *)
(* whether getattr finds it, throws whether calling it raises.  Flows are  *)
(* in ten-thousandths, so that the threshold 0.001 is 10.                  *)

HelperRet(exc, ret) == [exc |-> exc, ret |-> ret]

\* get_column_cost: everything is inside try/except Exception: return 0.0;
\* temperature_per_stage[-1] raises IndexError on an empty tuple
get_column_cost(temperature_per_stage, has_invest, invest, has_operating, operating, throws) ==
    IF temperature_per_stage = <<>> THEN HelperRet(NoExc, Some(0))
    ELSE IF (has_invest \/ has_operating) /\ throws THEN HelperRet(NoExc, Some(0))
    ELSE HelperRet(NoExc, Some((IF has_invest THEN invest ELSE 0)
                                + (IF has_operating THEN operating ELSE 0)))

\* a helper that looks the routine up without a default
get_stream_value_strict(has_value, value, throws) ==
    IF ~has_value THEN HelperRet("AttributeError", None)
    ELSE IF throws THEN HelperRet("RuntimeError", None)
    ELSE HelperRet(NoExc, Some(value))

\* get_stream_value: the default routine returns (0.0, None)
get_stream_value(has_value, value, throws) ==
    IF ~has_value THEN HelperRet(NoExc, Some(0))
    ELSE IF throws THEN HelperRet("RuntimeError", None)
    ELSE HelperRet(NoExc, Some(value))

no_purity == <<0, 0, 0, 0, 0, 0>>

\* stream_is_product_or_outlet: returns (is_product, is_outlet); the routine
\* is asked only when total_flow > 0.001
stream_is_product_or_outlet(total_flow, has_purity_check, is_purity, throws) ==
    IF total_flow > 10 /\ has_purity_check /\ throws
    THEN HelperRet("RuntimeError", None)
    ELSE LET purity == IF total_flow > 10 /\ has_purity_check THEN is_purity
                       ELSE no_purity
             is_product == \E k \in DOMAIN purity : purity[k] # 0
         IN  HelperRet(NoExc, Some(<<is_product, is_product \/ total_flow < 10>>))

----------------------------------------------------------------------------
(* run_sweep (api/run_sweep_aspen.py:15-66, examples/run_sweep_aspen.py    *)
(* 20-87).  Temperatures are in kelvin, the second parameter in            *)
(* hundredths.  A value read from the external tree is the token "out".    *)

temps == <<290, 300, 320>>

cats == <<5, 10, 20>>

refluxes == <<80, 100, 150>>

\* a product whose first factor varies fastest
build_param_grid_transposed(ts, cs) ==
    [k \in 1 .. Len(ts) * Len(cs) |->
        [first |-> ts[((k - 1) % Len(ts)) + 1],
         second |-> cs[((k - 1) \div Len(ts)) + 1]]]

\* build_param_grid: itertools.product of the two lists, first factor slowest
build_param_grid(ts, cs) ==
    [k \in 1 .. Len(ts) * Len(cs) |->
        [first |-> ts[((k - 1) \div Len(cs)) + 1],
         second |-> cs[((k - 1) % Len(cs)) + 1]]]

grid(kind) ==
    IF kind = "api" THEN build_param_grid(temps, cats)
    ELSE build_param_grid(temps, refluxes)

SweepKinds == {"api", "examples"}

full_row(kind, i, point) ==
    IF kind = "api"
    THEN [idx |-> i, temperature_set |-> point.first, cat_eq_set |-> point.second,
          tops_temp |-> "out", tops_pressure |-> "out", tops_ethane |-> "out",
          tops_propane |-> "out", bots_temp |-> "out", bots_pressure |-> "out",
          bots_ethane |-> "out", bots_propane |-> "out"]
    ELSE [idx |-> i, temp_set |-> point.first, reflux_set |-> point.second,
          tops_temp |-> "out", tops_pressure |-> "out", tops_ethane |-> "out",
          tops_propane |-> "out", bots_temp |-> "out", bots_pressure |-> "out",
          bots_ethane |-> "out", bots_propane |-> "out", cond_duty |-> "out",
          reb_duty |-> "out"]

\* row = {"idx": idx, "error": str(exc)}
error_row(i, exc) == [idx |-> i, error |-> exc]

\* an except clause that drops the point
sweep_except_skip(rs, i, exc) == rs

\* the except clause and rows.append(row)
sweep_except(rs, i, exc) == Append(rs, error_row(i, exc))

\* every key a row can hold, in the order sorted() gives
SortedKeys ==
    <<"bots_ethane", "bots_pressure", "bots_propane", "bots_temp", "cat_eq_set",
      "cond_duty", "error", "idx", "reb_duty", "reflux_set", "temp_set",
      "temperature_set", "tops_ethane", "tops_pressure", "tops_propane", "tops_temp">>

\* a header taken from the first row alone
header_keys_first(rs) ==
    LET all == IF rs = <<>> THEN {} ELSE DOMAIN rs[1]
    IN  SelectSeq(SortedKeys, LAMBDA k : k \in all)

\* sorted(set().union(*(r.keys() for r in rows)))
header_keys(rs) ==
    LET all == UNION {DOMAIN rs[i] : i \in DOMAIN rs}
    IN  SelectSeq(SortedKeys, LAMBDA k : k \in all)

\* csv.DictWriter: a key the row lacks is written as the empty string
write_csv(rs) ==
    LET keys == header_keys(rs)
    IN  [header |-> keys,
         lines |-> [i \in DOMAIN rs |->
                      [j \in DOMAIN keys |->
                          IF keys[j] \in DOMAIN rs[i]
                          THEN Some(rs[i][keys[j]]) ELSE Some("")]]]

ApiCall(op, r) == [op |-> op, exc |-> r.exc, log |-> r.log]

\* the program may be either script
Sweep_frame == UNCHANGED <<clientVars_own, win32com, windows, sweep_kind, csv, main>>

\* api = AspenAPI(flowsheet_path=...): Simulation.__init__ with the path
Sweep_start(flowsheet_path) ==
    /\ sweep_pc = "start"
    /\ Sim_init_step(Some(flowsheet_path))
    /\ sweep_pc' = IF sim_state' = "built" THEN "set_input" ELSE "aborted"
    /\ api_call' = [op |-> "__init__", exc |-> call'.exc, log |-> <<>>]
    /\ UNCHANGED <<sweep_kind, sweep_idx, rows, csv, main>>

\* a statement of the try block raised: the except clause, rows.append(row),
\* and the next point
Sweep_raise(op, r) ==
    /\ rows' = sweep_except(rows, sweep_idx, r.exc)
    /\ sweep_idx' = sweep_idx + 1
    /\ sweep_pc' = IF sweep_idx + 1 < Len(grid(sweep_kind)) THEN "set_input" ELSE "write"
    /\ api_call' = ApiCall(op, r)

Sweep_go(op, r, next) ==
    /\ sweep_pc' = next
    /\ api_call' = ApiCall(op, r)
    /\ UNCHANGED <<rows, sweep_idx>>

Sweep_set_input ==
    /\ sweep_pc = "set_input"
    /\ \E variant \in Variants,
          fail_at \in FailAts(set_input_stream_specification_calls) :
         LET r == set_input_stream_specification(variant, fail_at)
         IN  IF r.exc # NoExc THEN Sweep_raise("set_input_stream_specification", r)
             ELSE Sweep_go("set_input_stream_specification", r, "set_column")
    /\ Sweep_frame
    /\ UNCHANGED <<simVars, opened, dispatched>>

Sweep_set_column ==
    /\ sweep_pc = "set_column"
    /\ \E variant \in Variants, fail_at \in FailAts(set_column_specification_calls) :
         LET r == set_column_specification(variant, fail_at)
         IN  IF r.exc # NoExc THEN Sweep_raise("set_column_specification", r)
             ELSE Sweep_go("set_column_specification", r, "solve")
    /\ Sweep_frame
    /\ UNCHANGED <<simVars, opened, dispatched>>

\* api.solve_flowsheet(): Simulation.Run, on an installation that has
\* Engine.Run2 and a Converged attribute, with a clock that reads 0
Sweep_solve ==
    /\ sweep_pc = "solve"
    /\ Sim_Run_step({"Engine.Run2"}, {"true", "false"}, {0})
    /\ LET r == [exc |-> call'.exc, log |-> <<>>]
       IN  IF r.exc # NoExc THEN Sweep_raise("solve_flowsheet", r)
           ELSE Sweep_go("solve_flowsheet", r, "read")
    /\ UNCHANGED <<sweep_kind, csv, main>>

\* the reads, the row literal and rows.append(row)
Sweep_read ==
    /\ sweep_pc = "read"
    /\ \E variant \in Variants,
          fail_at \in FailAts(get_output_stream_specifications_calls),
          fail_at2 \in IF sweep_kind = "examples"
                       THEN FailAts(get_simulated_column_properties_calls)
                       ELSE {0} :
         LET r1 == get_output_stream_specifications(variant, fail_at)
             r2 == get_simulated_column_properties(variant, fail_at2)
         IN  IF r1.exc # NoExc
             THEN Sweep_raise("get_output_stream_specifications", r1)
             ELSE IF sweep_kind = "examples" /\ r2.exc # NoExc
             THEN Sweep_raise("get_simulated_column_properties", r2)
             ELSE /\ rows' = Append(rows, full_row(sweep_kind, sweep_idx,
                                                   grid(sweep_kind)[sweep_idx + 1]))
                  /\ sweep_idx' = sweep_idx + 1
                  /\ sweep_pc' = IF sweep_idx + 1 < Len(grid(sweep_kind)) THEN "set_input"
                                 ELSE "write"
                  /\ api_call' = IF sweep_kind = "examples"
                                 THEN ApiCall("get_simulated_column_properties", r2)
                                 ELSE ApiCall("get_output_stream_specifications", r1)
    /\ Sweep_frame
    /\ UNCHANGED <<simVars, opened, dispatched>>

\* the file is written; open() may fail, which ends run_sweep
Sweep_write ==
    /\ sweep_pc = "write"
    /\ \E open_ok \in BOOLEAN :
         IF open_ok
         THEN /\ csv' = Some(write_csv(rows))
              /\ sweep_pc' = "done"
              /\ api_call' = [op |-> "write", exc |-> NoExc, log |-> <<>>]
         ELSE /\ csv' = None
              /\ sweep_pc' = "aborted"
              /\ api_call' = [op |-> "write", exc |-> "OSError", log |-> <<>>]
    /\ UNCHANGED <<clientVars_own, win32com, windows, simVars, opened, dispatched,
                   sweep_kind, sweep_idx, rows, main>>

InitSweep ==
    /\ Platform
    /\ ClientStart("unused")
    /\ SimStart("unbuilt")
    /\ \E kind \in SweepKinds : SweepStart("start", kind)

NextSweep ==
    \/ \E path \in Paths : Sweep_start(path)
    \/ Sweep_set_input
    \/ Sweep_set_column
    \/ Sweep_solve
    \/ Sweep_read
    \/ Sweep_write

----------------------------------------------------------------------------
(* A program that drives AspenAPI directly: the constructor, then the      *)
(* facade methods in any order.                                            *)

\* n_stages of the column input the caller passes
FacadeStages == 1

FacadeCall(op, exc, log, ret, arg) ==
    [op |-> op, exc |-> exc, log |-> log, ret |-> ret, arg |-> arg]

\* state no facade method touches
Facade_frame == UNCHANGED <<clientVars_own, win32com, windows, sweep_pc, sweep_kind,
                            sweep_idx, rows, csv, main>>

\* AspenAPI.__init__
Facade_init(flowsheet_path) ==
    /\ sweep_pc = "facade"
    /\ Sim_init_step(Some(flowsheet_path))
    /\ api_call' = FacadeCall("__init__", call'.exc, <<>>, None, Some(flowsheet_path))
    /\ UNCHANGED <<sweep_pc, sweep_kind, sweep_idx, rows, csv, main>>

\* the three helpers; none reads or writes the external tree
Facade_get_column_cost ==
    /\ sweep_pc = "facade"
    /\ sim_state = "built"
    /\ \E temperature_per_stage \in {<<>>, <<350, 300>>},
          has_invest \in BOOLEAN, has_operating \in BOOLEAN, throws \in BOOLEAN :
         LET r == get_column_cost(temperature_per_stage, has_invest, 70,
                                  has_operating, 30, throws)
         IN  api_call' = FacadeCall("get_column_cost", r.exc, <<>>, r.ret,
                            [temperature_per_stage |-> temperature_per_stage,
                             has_invest |-> has_invest,
                             has_operating |-> has_operating, throws |-> throws])
    /\ Facade_frame
    /\ UNCHANGED <<simVars, opened, dispatched>>

Facade_get_stream_value ==
    /\ sweep_pc = "facade"
    /\ sim_state = "built"
    /\ \E has_value \in BOOLEAN, value \in {0, 12}, throws \in BOOLEAN :
         LET r == get_stream_value(has_value, value, throws)
         IN  api_call' = FacadeCall("get_stream_value", r.exc, <<>>, r.ret,
                            [has_value |-> has_value, value |-> value,
                             throws |-> throws])
    /\ Facade_frame
    /\ UNCHANGED <<simVars, opened, dispatched>>

Facade_stream_is_product_or_outlet ==
    /\ sweep_pc = "facade"
    /\ sim_state = "built"
    /\ \E total_flow \in {0, 10, 33480}, has_purity_check \in BOOLEAN,
          is_purity \in {no_purity, <<0, 1, 0, 0, 0, 0>>}, throws \in BOOLEAN :
         LET r == stream_is_product_or_outlet(total_flow, has_purity_check,
                                              is_purity, throws)
         IN  api_call' = FacadeCall("stream_is_product_or_outlet", r.exc, <<>>, r.ret,
                            [total_flow |-> total_flow,
                             has_purity_check |-> has_purity_check,
                             is_purity |-> is_purity, throws |-> throws])
    /\ Facade_frame
    /\ UNCHANGED <<simVars, opened, dispatched>>

\* the setters and getters of the facade; what a getter returns is the token
\* "out" for each value read
Facade_set_input_stream_specification ==
    /\ sweep_pc = "facade"
    /\ sim_state = "built"
    /\ \E variant \in Variants,
          fail_at \in FailAts(set_input_stream_specification_calls) :
         LET r == set_input_stream_specification(variant, fail_at)
         IN  api_call' = FacadeCall("set_input_stream_specification", r.exc, r.log,
                                    None, None)
    /\ Facade_frame
    /\ UNCHANGED <<simVars, opened, dispatched>>

Facade_set_column_specification ==
    /\ sweep_pc = "facade"
    /\ sim_state = "built"
    /\ \E variant \in Variants, fail_at \in FailAts(set_column_specification_calls) :
         LET r == set_column_specification(variant, fail_at)
         IN  api_call' = FacadeCall("set_column_specification", r.exc, r.log,
                                    None, None)
    /\ Facade_frame
    /\ UNCHANGED <<simVars, opened, dispatched>>

\* solve_flowsheet: Simulation.Run and nothing else
Facade_solve_flowsheet ==
    /\ sweep_pc = "facade"
    /\ Sim_Run_step(RunEntries, {"true", "false"}, {0})
    /\ api_call' = FacadeCall("solve_flowsheet", call'.exc, <<>>, None, None)
    /\ UNCHANGED <<sweep_pc, sweep_kind, sweep_idx, rows, csv, main>>

Facade_get_output_stream_specifications ==
    /\ sweep_pc = "facade"
    /\ sim_state = "built"
    /\ \E variant \in Variants,
          fail_at \in FailAts(get_output_stream_specifications_calls) :
         LET r == get_output_stream_specifications(variant, fail_at)
         IN  api_call' = FacadeCall("get_output_stream_specifications", r.exc, r.log,
                                    IF r.exc = NoExc THEN Some(<<"out", "out">>)
                                    ELSE None,
                                    None)
    /\ Facade_frame
    /\ UNCHANGED <<simVars, opened, dispatched>>

\* get_simulated_column_properties: the two duties, then the three per-stage
\* reads in the order vapor flows, temperatures, molar weights
Facade_get_simulated_column_properties ==
    /\ sweep_pc = "facade"
    /\ sim_state = "built"
    /\ \E variant \in Variants,
          fail_at \in FailAts(get_simulated_column_properties_calls),
          primary \in StageValues(FacadeStages, 5),
          fallback \in StageValues(FacadeStages, 7) :
         LET r == get_simulated_column_properties(variant, fail_at)
             stages(node) == BLK_Get_Column_Stage(node, FacadeStages, primary, fallback)
         IN  api_call' =
               FacadeCall("get_simulated_column_properties", r.exc, r.log,
                          IF r.exc = NoExc
                          THEN Some([condenser_duty |-> "out",
                                     reboiler_duty |-> "out",
                                     vapor_flow_per_stage |-> stages("VAPOR"),
                                     temperature_per_stage |-> stages("TEMP"),
                                     molar_weight_per_stage |-> stages("MW")])
                          ELSE None,
                          Some(FacadeStages))
    /\ Facade_frame
    /\ UNCHANGED <<simVars, opened, dispatched>>

InitFacade ==
    /\ Platform
    /\ ClientStart("unused")
    /\ SimStart("unbuilt")
    /\ SweepStart("facade", "api")

NextFacade ==
    \/ \E path \in Paths : Facade_init(path)
    \/ Facade_set_input_stream_specification
    \/ Facade_set_column_specification
    \/ Facade_solve_flowsheet
    \/ Facade_get_output_stream_specifications
    \/ Facade_get_simulated_column_properties
    \/ Facade_get_column_cost
    \/ Facade_get_stream_value
    \/ Facade_stream_is_product_or_outlet

----------------------------------------------------------------------------
(* The scripts run from the command line: examples/cli_example.py and the  *)
(* main blocks of the two run_sweep scripts.                               *)

\* the process ends: sys.exit(status), the end of the script, or an
\* exception nothing caught, which prints a traceback and exits with 1
Exit(status, diagnostic) ==
    [main EXCEPT !.pc = "exited", !.status = Some(status), !.diagnostic = diagnostic]

\* state the main block of a sweep script does not touch before run_sweep
Main_frame == UNCHANGED <<clientVars, simVars, sweep_kind, sweep_idx, rows, csv, api_call>>

\* examples/run_sweep_aspen.py: --flowsheet is required, and the script
\* leaves with status 2 unless the file exists
Main_examples(flowsheet) ==
    /\ main.script = "examples_sweep"
    /\ main.pc = "argv"
    /\ IF ~exists(flowsheet)
       THEN /\ main' = [Exit(2, "Flowsheet not found") EXCEPT !.path = Some(flowsheet)]
            /\ UNCHANGED sweep_pc
       ELSE /\ main' = [main EXCEPT !.pc = "run_sweep", !.path = Some(flowsheet)]
            /\ sweep_pc' = "start"
    /\ Main_frame

\* api/run_sweep_aspen.py: the path is the one written in the script, the
\* file may or may not be there, and run_sweep is called with it
Main_api(flowsheet) ==
    /\ main.script = "api_sweep"
    /\ main.pc = "argv"
    /\ main' = [main EXCEPT !.pc = "run_sweep", !.path = Some(flowsheet)]
    /\ sweep_pc' = "start"
    /\ Main_frame

\* run_sweep(flowsheet, ...) constructs AspenAPI with the path it was given
Main_run_sweep ==
    /\ main.pc = "run_sweep"
    /\ Sweep_start(main.path[1])

\* run_sweep returned, or an exception left it
Main_sweep_exit ==
    /\ main.pc = "run_sweep"
    /\ sweep_pc \in {"done", "aborted"}
    /\ main' = IF sweep_pc = "done" THEN Exit(0, "none") ELSE Exit(1, "Traceback")
    /\ UNCHANGED sweep_pc
    /\ Main_frame

\* cli_example.py: parser.parse_args(); --case is optional
Cli_parse_args(case) ==
    /\ main.script = "cli_example"
    /\ main.pc = "argv"
    /\ main' = [main EXCEPT !.pc = "main", !.path = case]
    /\ UNCHANGED sweep_pc
    /\ Main_frame

\* client = AspenPlusClient(backend="mock")
Cli_client ==
    /\ main.pc = "main"
    /\ Client_init("mock")

\* with client.connect():
Cli_connect ==
    /\ main.pc = "main"
    /\ cm_pc = "idle"
    /\ Client_connect

\* client.open_case(args.case)
Cli_open_case ==
    /\ main.pc = "main"
    /\ cm_pc = "body"
    /\ last.op = "connect"
    /\ main.path \notin {None, Some("")}
    /\ Client_open_case(main.path[1])

\* client.run()
Cli_run ==
    /\ main.pc = "main"
    /\ cm_pc = "body"
    /\ \/ last.op = "open_case"
       \/ last.op = "connect" /\ main.path \in {None, Some("")}
    /\ Client_run

\* streams = client.get_streams() and the prints
Cli_print ==
    /\ main.pc = "main"
    /\ cm_pc = "body"
    /\ last.op = "run"
    /\ main' = [main EXCEPT !.pc = "printed", !.out = Mock_get_streams(Mock)]
    /\ UNCHANGED sweep_pc
    /\ Main_frame

\* the with-block ends
Cli_block_exit ==
    /\ main.pc = "printed"
    /\ cm_pc = "body"
    /\ Client_connect_exit

\* main() returns
Cli_exit ==
    /\ main.pc = "printed"
    /\ cm_pc = "exited"
    /\ main' = IF cm_exc = NoExc THEN Exit(0, "none") ELSE Exit(1, "Traceback")
    /\ UNCHANGED sweep_pc
    /\ Main_frame

InitCli ==
    /\ Platform
    /\ \E script \in {"cli_example", "examples_sweep", "api_sweep"} :
         /\ main = [NoMain EXCEPT !.script = script, !.pc = "argv"]
         /\ ClientStart(IF script = "cli_example" THEN "unbuilt" ELSE "unused")
         /\ SimStart(IF script = "cli_example" THEN "unused" ELSE "unbuilt")
         /\ sweep_pc = (IF script = "cli_example" THEN "unused" ELSE "main")
         /\ sweep_kind = (IF script = "examples_sweep" THEN "examples" ELSE "api")
    /\ sweep_idx = 0
    /\ rows = <<>>
    /\ csv = None
    /\ api_call = NoApiCall

NextCli ==
    \/ \E flowsheet \in Paths : Main_examples(flowsheet)
    \/ \E flowsheet \in Paths : Main_api(flowsheet)
    \/ Main_run_sweep
    \/ Sweep_set_input
    \/ Sweep_set_column
    \/ Sweep_solve
    \/ Sweep_read
    \/ Sweep_write
    \/ Main_sweep_exit
    \/ \E case \in {None} \cup {Some(p) : p \in Paths} : Cli_parse_args(case)
    \/ Cli_client
    \/ Cli_connect
    \/ Cli_open_case
    \/ Cli_run
    \/ Cli_print
    \/ Cli_block_exit
    \/ Cli_exit

----------------------------------------------------------------------------
(* Specifications *)

\* a program that uses AspenPlusClient
Init == InitClient

Next == NextClient

Spec == Init /\ [][Next]_vars

\* a program that uses Simulation directly
SpecSim == InitSim /\ [][NextSim]_vars

\* either program: the two adapters to the external application
SpecAdapters == (InitClient \/ InitSim) /\ [][NextClient \/ NextSim]_vars

\* a program that runs run_sweep
SpecSweep == InitSweep /\ [][NextSweep]_vars

\* a program that drives AspenAPI directly
SpecFacade == InitFacade /\ [][NextFacade]_vars

\* one of the three scripts, run from the command line
SpecCli == InitCli /\ [][NextCli]_vars

----------------------------------------------------------------------------
(* Properties of the client (Spec) *)

\* the records get_streams returns that a caller finds under name, looking
\* as tests/test_client.py:20 does
read_back(name) == SelectSeq(Mock_get_streams(Mock), LAMBDA x : x.name = name)

\* C1: on the mock backend, right after set_stream(name, record) the records
\* get_streams returns for that name are exactly the one written record, for
\* every name and record and after any earlier calls.
C1_ReadBackWritten ==
    (backend_name = "mock" /\ last.op = "set_stream")
        => read_back(last.name[1]) = <<last.rec[1]>>

\* C2: right after open_case on the mock backend the table holds exactly the
\* two fixture entries, F1 with flow 100.0 and F2 with flow 50.0, each under
\* its own name, whatever the table held before and whatever path was given.
C2_OpenCaseResets ==
    (backend_name = "mock" /\ last.op = "open_case")
        => /\ Len(_streams) = 2
           /\ DictKeys(_streams) = {"F1", "F2"}
           /\ LET got == Mock_get_streams(Mock)
              IN  {<<got[i].name, got[i].flow>> : i \in DOMAIN got}
                      = {<<"F1", 1000>>, <<"F2", 500>>}
           /\ \A i \in DOMAIN _streams : _streams[i].key = _streams[i].val.name
           /\ _streams = Fixture

\* open_case was called on a table that differed from the fixture
C2_Witness ==
    /\ backend_name = "mock"
    /\ last.op = "open_case"
    /\ last.dirty
    /\ last.name = Some("missing.bkp")

\* C4: a COM backend object exists only where the automation runtime does:
\* pywin32 imported and the platform is Windows.
C4_ConstructionFails == backend_name = "com" => (win32com /\ windows)

\* C8: when the with-block of connect() has been left, by its normal end, by
\* an exception raised inside it or because connect itself failed, close was
\* called, the backend is released, and the exception that ended the block is
\* the one the caller receives.
C8_ScopedRelease ==
    (last.op = "exit" \/ (last.op = "connect" /\ last.exc # NoExc))
        => /\ cm_pc = "exited"
           /\ cm_closed
           /\ backend_name = "mock" => ~_open
           /\ backend_name = "com" => (app = None /\ doc = None)
           /\ cm_exc = last.exc

\* a COM operation raised inside the block and the block was left with it
C8_Witness ==
    /\ last.op = "exit"
    /\ last.exc = "AspenPlusError"
    /\ backend_name = "com"
    /\ cm_pc = "exited"

\* C18: run on the mock backend never raises and leaves the stream table
\* with every record in it, the case path and the open flag as they were, in
\* whatever state it is called.
C18_MockRunNoOp ==
    [][(backend_name = "mock" /\ last'.op = "run")
          => /\ last'.exc = NoExc
             /\ raised' = NoExc
             /\ _streams' = _streams
             /\ _case' = _case
             /\ _open' = _open]_vars

\* run was called after the with-block had closed the backend, on a table
\* that a write had changed
C18_Witness ==
    /\ backend_name = "mock"
    /\ last.op = "run"
    /\ cm_pc = "exited"
    /\ ~_open
    /\ Len(_streams) = 3

\* C19: set_stream(name, record) on the mock backend leaves the table with
\* its former keys plus name, record under name, every entry under another
\* name as it was and in its place, one entry more exactly when name was
\* absent, and the case path and open flag untouched.
C19_SetStreamFrame ==
    [][(backend_name = "mock" /\ last'.op = "set_stream")
          => LET name == last'.name[1]
                 record == last'.rec[1]
             IN  /\ DictKeys(_streams') = DictKeys(_streams) \cup {name}
                 /\ Len(_streams') = Len(_streams)
                                       + (IF DictHas(_streams, name) THEN 0 ELSE 1)
                 /\ \A i \in DOMAIN _streams :
                       _streams[i].key # name => _streams'[i] = _streams[i]
                 /\ \A i \in DOMAIN _streams' :
                       _streams'[i].key = name => _streams'[i].val = record
                 /\ \A i, j \in DOMAIN _streams' :
                       _streams'[i].key = _streams'[j].key => i = j
                 /\ _case' = _case
                 /\ _open' = _open]_vars

\* a record was inserted under a new name beside the two fixture entries
C19_Witness ==
    /\ backend_name = "mock"
    /\ last.op = "set_stream"
    /\ last.name = Some("S9")
    /\ last.rec = Some(Stream2("F1", 2000))
    /\ Len(_streams) = 3
    /\ _streams[1] = Fixture[1]
    /\ _streams[2] = Fixture[2]
    /\ _streams[3] = [key |-> "S9", val |-> Stream2("F1", 2000)]

\* C21: a call on the COM backend that completes has read every value it
\* returns from the external application and has written the value it was
\* given: get_streams returns no record whose name or flow stands in for an
\* attribute the item does not have, and set_stream does not complete
\* without assigning the flow.
C21_UnresolvedSurfaced ==
    (backend_name = "com" /\ last.exc = NoExc /\ last.got # None)
        => /\ last.op = "set_stream" => "TotalFlow" \in last.got[1]
           /\ last.op = "get_streams"
                 => \A i \in DOMAIN last.got[1].ret :
                       /\ last.got[1].held[i].Name = Some(last.got[1].ret[i].name)
                       /\ last.got[1].held[i].TotalFlow = Some(last.got[1].ret[i].flow)

\* C23: on the mock backend the records get_streams returns carry pairwise
\* different name fields, and each one's name field is the key it is stored
\* under, whatever calls came before.
C23_OneRecordPerName ==
    backend_name = "mock"
        => /\ \A i, j \in DOMAIN Mock_get_streams(Mock) :
                 Mock_get_streams(Mock)[i].name = Mock_get_streams(Mock)[j].name
                     => i = j
           /\ \A i \in DOMAIN _streams :
                 Mock_get_streams(Mock)[i].name = _streams[i].key

----------------------------------------------------------------------------
(* Properties of Simulation (SpecSim) *)

\* C3: a per-stage read called with N >= 0 returns, without raising, exactly
\* N elements, whichever stages resolve.
C3_StageReadLength ==
    (call.op \in StageReads /\ call.arg.N_stages >= 0)
        => /\ call.exc = NoExc
           /\ Len(call.ret[1]) = call.arg.N_stages

\* two stages were asked for and the first resolved in neither lookup
C3_Witness ==
    /\ call.op \in StageReads
    /\ call.arg.N_stages = 2
    /\ call.arg.primary[1] = None
    /\ call.arg.fallback[1] = None
    /\ call.arg.primary[2] # None
    /\ call.ret[1] = <<0, 5>>

\* the external run threw, no entrypoint was found, or it reported
\* non-convergence
RunFailed(arg) == arg.entry = "none" \/ arg.throws \/ arg.conv = "false"

\* C5: whenever the external run throws or reports non-convergence, Run
\* records the duration, sets the flag to false and raises.
C5_FailureResignaled ==
    (call.op = "Run" /\ RunFailed(call.arg))
        => /\ duration = Some(call.arg.elapsed)
           /\ converged = Some(FALSE)
           /\ call.exc # NoExc

\* C6: right after a Run the flag is false if that Run failed and true if it
\* succeeded, whatever the flag was before; no other call on the object
\* changes the flag.
C6_FlagReflectsLatestRun ==
    /\ [](call.op = "Run" => converged = Some(~RunFailed(call.arg)))
    /\ [][(sim_state = "built" /\ call'.op # "Run") => converged' = converged]_vars

\* a Run that raised followed one that had set the flag to true
C6_Witness ==
    /\ call.op = "Run"
    /\ call.arg.before = Some(TRUE)
    /\ call.arg.throws
    /\ call.exc = "RuntimeError"
    /\ converged = Some(FALSE)

\* C15: in a per-stage read the element at position k is the primary
\* lookup's value of stage k when that lookup succeeds, else the fallback
\* lookup's value when that succeeds, else 0, whatever the other stages give.
C15_StageValues ==
    call.op \in StageReads
        => \A k \in 1 .. call.arg.N_stages :
             call.ret[1][k] = IF call.arg.primary[k] # None
                              THEN call.arg.primary[k][1]
                              ELSE IF call.arg.fallback[k] # None
                              THEN call.arg.fallback[k][1]
                              ELSE 0

\* stage 1 failed in both lookups and stage 2 came from the fallback
C15_Witness ==
    /\ call.op \in StageReads
    /\ call.arg.N_stages = 2
    /\ call.arg.primary = <<None, None>>
    /\ call.arg.fallback = <<None, Some(7)>>
    /\ call.ret = Some(<<0, 7>>)

----------------------------------------------------------------------------
(* Properties of both adapters (SpecAdapters) *)

\* C7: no open routine is ever issued for a path that does not exist, and
\* opening a missing path through either adapter raises.
C7_MissingPathNotOpened ==
    /\ \A c \in opened : exists(c[2])
    /\ (call.op \in {"__init__", "_open_flowsheet"} /\ call.arg # None
            /\ ~exists(call.arg[1]))
        => call.exc # NoExc
    /\ (call.op = "_open_flowsheet" /\ ~exists(call.arg[1]))
        => call.exc = "FileNotFoundError"
    /\ (last.op = "open_case" /\ backend_name = "com" /\ ~exists(last.name[1]))
        => last.exc = "AspenPlusError"

\* a missing path was given to _open_flowsheet after a case had been opened
C7_Witness ==
    /\ call.op = "_open_flowsheet"
    /\ call.arg = Some("missing.bkp")
    /\ call.exc = "FileNotFoundError"
    /\ opened # {}

\* C22: one adapter, whether a client's COM backend or a Simulation, has
\* dispatched at most one application object, whatever calls were made on
\* it (a second connect after close included).
C22_OneApplicationPerAdapter ==
    (backend_name = "com" \/ sim_state \in {"built", "failed"}) => dispatched <= 1

----------------------------------------------------------------------------
(* Properties of the sweep (SpecSweep) *)

\* C9: when run_sweep has ended, the COM session the facade acquired has
\* been released.
C9_SessionReleased == sweep_pc \in {"done", "aborted"} => AspenSimulation = None

is_error_row(r) == DOMAIN r = {"idx", "error"}

\* C10: every grid point handled so far has its row, at its index; a row is
\* either the error row with only idx and error or the full row of its
\* point; a point whose call raised got the error row and the sweep went on;
\* rows already appended never change; a finished sweep has one row per
\* grid point.
C10_ErrorRowOnly ==
    /\ [](/\ Len(rows) = sweep_idx
          /\ \A i \in DOMAIN rows :
                /\ rows[i].idx = i - 1
                /\ \/ is_error_row(rows[i])
                   \/ rows[i] = full_row(sweep_kind, i - 1, grid(sweep_kind)[i])
          /\ (api_call.exc # NoExc /\ api_call.op \notin {"__init__", "write"})
                => /\ rows # <<>>
                   /\ is_error_row(rows[Len(rows)])
                   /\ sweep_pc \in {"set_input", "write", "done", "aborted"}
          /\ sweep_pc = "done" => Len(rows) = Len(grid(sweep_kind)))
    /\ [][SubSeq(rows', 1, Len(rows)) = rows]_vars

\* a finished sweep in which the second point raised and the points before
\* and after it did not
C10_Witness ==
    /\ sweep_pc = "done"
    /\ Len(rows) = 9
    /\ is_error_row(rows[2])
    /\ rows[2].error = "RuntimeError"
    /\ ~is_error_row(rows[1])
    /\ ~is_error_row(rows[3])
    /\ csv # None
    /\ "error" \in {csv[1].header[j] : j \in DOMAIN csv[1].header}

\* C11: rows are appended one at a time, one per grid point, and a finished
\* sweep in which no point raised has nine rows in grid order (the first
\* parameter slowest), nine data lines under one header, and no error
\* column.
C11_OneRowPerPoint ==
    /\ []((sweep_pc = "done" /\ \A i \in DOMAIN rows : ~is_error_row(rows[i]))
            => /\ Len(rows) = 9
               /\ csv # None
               /\ Len(csv[1].lines) = 9
               /\ \A j \in DOMAIN csv[1].header : csv[1].header[j] # "error"
               /\ \A i \in 1 .. 9 :
                    /\ rows[i].idx = i - 1
                    /\ IF sweep_kind = "api"
                       THEN /\ rows[i].temperature_set
                                 = <<290, 290, 290, 300, 300, 300, 320, 320, 320>>[i]
                            /\ rows[i].cat_eq_set
                                 = <<5, 10, 20, 5, 10, 20, 5, 10, 20>>[i]
                       ELSE /\ rows[i].temp_set
                                 = <<290, 290, 290, 300, 300, 300, 320, 320, 320>>[i]
                            /\ rows[i].reflux_set
                                 = <<80, 100, 150, 80, 100, 150, 80, 100, 150>>[i])
    /\ [][/\ Len(rows') \in {Len(rows), Len(rows) + 1}
          /\ sweep_idx' = Len(rows')]_vars

\* the examples sweep finished with every point read
C11_Witness ==
    /\ sweep_pc = "done"
    /\ sweep_kind = "examples"
    /\ Len(rows) = 9
    /\ \A i \in DOMAIN rows : ~is_error_row(rows[i])
    /\ csv # None

\* C12: the header of the written file holds every key of every row and no
\* key that no row has, each once.
C12_HeaderIsUnion ==
    csv # None
        => /\ {csv[1].header[j] : j \in DOMAIN csv[1].header}
                = UNION {DOMAIN rows[i] : i \in DOMAIN rows}
           /\ \A j, k \in DOMAIN csv[1].header :
                csv[1].header[j] = csv[1].header[k] => j = k

\* the file was written for a sweep whose first point was read and whose
\* last point raised
C12_Witness ==
    /\ csv # None
    /\ ~is_error_row(rows[1])
    /\ is_error_row(rows[9])
    /\ \E j \in DOMAIN csv[1].header : csv[1].header[j] = "error"
    /\ \E j \in DOMAIN csv[1].header : csv[1].header[j] = "tops_temp"

----------------------------------------------------------------------------
(* Properties of the facade (SpecFacade) *)

\* C13: a helper whose CAL_ routine is absent returns the neutral value and
\* does not raise: get_column_cost adds 0 for each absent routine,
\* get_stream_value returns 0, stream_is_product_or_outlet reports no
\* product.
C13_AbsentRoutineDefaults ==
    /\ api_call.op = "get_column_cost"
        => /\ api_call.exc = NoExc
           /\ (~api_call.arg.has_invest /\ ~api_call.arg.has_operating)
                => api_call.ret = Some(0)
           /\ (~api_call.arg.has_invest /\ api_call.ret # Some(0))
                => api_call.ret = Some(30)
           /\ (~api_call.arg.has_operating /\ api_call.ret # Some(0))
                => api_call.ret = Some(70)
    /\ (api_call.op = "get_stream_value" /\ ~api_call.arg.has_value)
        => (api_call.exc = NoExc /\ api_call.ret = Some(0))
    /\ (api_call.op = "stream_is_product_or_outlet"
            /\ ~api_call.arg.has_purity_check)
        => (api_call.exc = NoExc /\ api_call.ret # None /\ ~api_call.ret[1][1])

\* get_stream_value was called on a flowsheet without CAL_stream_value
C13_Witness ==
    /\ api_call.op = "get_stream_value"
    /\ ~api_call.arg.has_value
    /\ api_call.arg.value = 12
    /\ api_call.ret = Some(0)

C17_OutputsOnlyAfterSolve ==
    (api_call.op \in {"get_output_stream_specifications",
                      "get_simulated_column_properties"}
        /\ api_call.exc = NoExc)
        => (api_call.ret # None => solved)

\* C24: set_input_stream_specification writes temperature, pressure and
\* then the six component flows of the feed stream under their external
\* identifiers, set_column_specification writes stages, feed location,
\* pressure, reflux ratio and reboil ratio, each in that order; the first
\* write that fails is the last one attempted, its error is the call's
\* error, and the writes before it were made and stay made.
C24_OrderedWritesFailFast ==
    api_call.op \in {"set_input_stream_specification", "set_column_specification"}
        => LET expected ==
                   IF api_call.op = "set_input_stream_specification"
                   THEN << <<"STRM_Temperature", "S1", "">>,
                           <<"STRM_Pressure", "S1", "">>,
                           <<"STRM_Flowrate", "S1", "ETHANE">>,
                           <<"STRM_Flowrate", "S1", "PROPANE">>,
                           <<"STRM_Flowrate", "S1", "I-BUTANE">>,
                           <<"STRM_Flowrate", "S1", "N-BUTANE">>,
                           <<"STRM_Flowrate", "S1", "I-PENTAN">>,
                           <<"STRM_Flowrate", "S1", "N-PENTAN">> >>
                   ELSE << <<"BLK_NumberOfStages", "B1", "">>,
                           <<"BLK_FeedLocation", "S1", "">>,
                           <<"BLK_Pressure", "B1", "">>,
                           <<"BLK_RefluxRatio", "B1", "">>,
                           <<"BLK_ReboilerRatio", "B1", "">> >>
               log == api_call.log
           IN  /\ Len(log) \in 1 .. Len(expected)
               /\ \A i \in DOMAIN log :
                     /\ <<log[i].op, log[i].name, log[i].comp>> = expected[i]
                     /\ i < Len(log) => log[i].exc = NoExc
               /\ log[Len(log)].exc = api_call.exc
               /\ api_call.exc = NoExc => Len(log) = Len(expected)

\* the last flow write of set_input_stream_specification failed after the
\* seven writes before it were made
C24_Witness ==
    /\ api_call.op = "set_input_stream_specification"
    /\ api_call.exc = "RuntimeError"
    /\ Len(api_call.log) = 8
    /\ api_call.log[7].exc = NoExc
    /\ api_call.log[8].exc = "RuntimeError"

----------------------------------------------------------------------------
(* Properties of the command-line scripts (SpecCli) *)

\* C20: a script that was given the path of a case file that does not exist
\* constructs no adapter, starts no sweep, and ends with a non-zero exit
\* status and a diagnostic.
C20_MissingCaseRejected ==
    (main.pc \notin {"unused", "argv"} /\ main.path # None /\ ~exists(main.path[1]))
        => /\ backend_name \in {"unused", "unbuilt"}
           /\ sim_state \in {"unused", "unbuilt"}
           /\ dispatched = 0
           /\ sweep_pc \in {"unused", "main"}
           /\ main.pc = "exited" => (main.status # Some(0) /\ main.diagnostic # "none")

====
